---- MODULE Spec2Model ----
(***************************************************************************)
(* A model of data/process_data.py: load_data (two CSV reads and an inner  *)
(* merge on id), clean_data (expansion of the packed `categories` string   *)
(* and removal of duplicate rows), save_data (one write into the sqlite    *)
(* table `messages`) and main, which runs the three in sequence.           *)
(*                                                                         *)
(* A table is a record [columns, rows]: columns is the sequence of column  *)
(* names, rows the sequence of rows, each row a tuple aligned with         *)
(* columns.  Tables carry the default positional index 0..n-1 that         *)
(* read_csv and merge produce, so pandas' alignment on the index is        *)
(* alignment by position.  Text cells are sequences of one-character       *)
(* strings, so that str.split and int() are computed, not assumed.         *)
(***************************************************************************)
EXTENDS Integers, Sequences, FiniteSets, TLC

VARIABLES
  fs,               \* the input files: path -> [exists, columns, rows]
  store,            \* the sqlite stores: location -> [exists, columns, rows] of table `messages`
  args,             \* the parsed command line: [messages, categories, database]
  pc,               \* the position of main
  data_df,          \* main's data_df: the table object load_data returned
  cleaned_data_df,  \* main's cleaned_data_df
  err,              \* the exception that ended the run, "none" when there is none
  log,              \* the lines the run logged
  runs              \* the number of runs of the script so far

vars == <<fs, store, args, pc, data_df, cleaned_data_df, err, log, runs>>

-----------------------------------------------------------------------------
(* Bounds *)

MaxFileRows == 2    \* rows of a CSV file drawn in InitLoad
MaxTableRows == 3   \* rows of a table drawn in InitClean
MaxRuns == 2        \* runs of the script against the same working directory

-----------------------------------------------------------------------------
(* Strings *)

Digits == {"0", "1", "2"}

DigitVal(c) == IF c = "0" THEN 0 ELSE IF c = "1" THEN 1 ELSE 2

\* str.split(sep): the pieces between the separators, at least one piece
RECURSIVE Split(_, _)
Split(s, sep) ==
  IF \A i \in 1..Len(s) : s[i] # sep
  THEN <<s>>
  ELSE LET k == CHOOSE i \in 1..Len(s) :
                  s[i] = sep /\ \A j \in 1..(i - 1) : s[j] # sep
       IN  <<SubSeq(s, 1, k - 1)>> \o Split(SubSeq(s, k + 1, Len(s)), sep)

\* int(s) is defined on a non-empty run of digits (no sign, blank or
\* underscore is in the alphabet of the model)
IntParsable(s) == Len(s) > 0 /\ \A i \in 1..Len(s) : s[i] \in Digits

RECURSIVE IntOf(_)
IntOf(s) ==
  IF Len(s) = 0 THEN 0
  ELSE 10 * IntOf(SubSeq(s, 1, Len(s) - 1)) + DigitVal(s[Len(s)])

\* a column label: the text of a character sequence
RECURSIVE Str(_)
Str(s) == IF s = <<>> THEN "" ELSE s[1] \o Str(Tail(s))

\* the value pandas pads a short split with
NoneVal == <<"None">>

-----------------------------------------------------------------------------
(* Tables *)

NoTable == [columns |-> <<>>, rows |-> <<>>]

NoFile == [exists |-> FALSE, columns |-> <<>>, rows |-> <<>>]

File(columns, rows) == [exists |-> TRUE, columns |-> columns, rows |-> rows]

SeqsUpTo(S, n) == UNION {[1..k -> S] : k \in 0..n}

Max(S) == CHOOSE m \in S : \A n \in S : n <= m

RECURSIVE Flatten(_)
Flatten(ss) == IF ss = <<>> THEN <<>> ELSE Head(ss) \o Flatten(Tail(ss))

HasColumn(columns, name) == \E i \in 1..Len(columns) : columns[i] = name

\* the position of the first column called name
ColumnIndex(columns, name) ==
  CHOOSE i \in 1..Len(columns) :
    columns[i] = name /\ \A j \in 1..(i - 1) : columns[j] # name

\* the positions of the columns not called name, in order
RECURSIVE KeepPositions(_, _, _)
KeepPositions(columns, name, i) ==
  IF i > Len(columns) THEN <<>>
  ELSE (IF columns[i] = name THEN <<>> ELSE <<i>>)
         \o KeepPositions(columns, name, i + 1)

Project(row, positions) == [k \in 1..Len(positions) |-> row[positions[k]]]

\* DataFrame.drop(columns=[name])
DropColumn(t, name) ==
  LET keep == KeepPositions(t.columns, name, 1)
  IN  [columns |-> Project(t.columns, keep),
       rows    |-> [r \in 1..Len(t.rows) |-> Project(t.rows[r], keep)]]

-----------------------------------------------------------------------------
(* load_data *)

\* Merge as a left join: a left row without a match is kept, padded with None
MergeLeftJoin(left, right) ==
  LET li   == ColumnIndex(left.columns, "id")
      ri   == ColumnIndex(right.columns, "id")
      rest == KeepPositions(right.columns, "id", 1)
      Matches(l) ==
        LET F[j \in 0..Len(right.rows)] ==
              IF j = 0 THEN <<>>
              ELSE IF right.rows[j][ri] = l[li]
                   THEN Append(F[j - 1], l \o Project(right.rows[j], rest))
                   ELSE F[j - 1]
        IN  IF F[Len(right.rows)] = <<>>
            THEN << l \o [k \in 1..Len(rest) |-> NoneVal] >>
            ELSE F[Len(right.rows)]
  IN  [columns |-> left.columns \o Project(right.columns, rest),
       rows    |-> Flatten([i \in 1..Len(left.rows) |-> Matches(left.rows[i])])]

\* Merge that pairs a left row with its first match only
MergeFirstMatch(left, right) ==
  LET li   == ColumnIndex(left.columns, "id")
      ri   == ColumnIndex(right.columns, "id")
      rest == KeepPositions(right.columns, "id", 1)
      Matches(l) ==
        LET hits == {j \in 1..Len(right.rows) : right.rows[j][ri] = l[li]}
        IN  IF hits = {} THEN <<>>
            ELSE << l \o Project(right.rows[CHOOSE j \in hits : \A h \in hits : j <= h], rest) >>
  IN  [columns |-> left.columns \o Project(right.columns, rest),
       rows    |-> Flatten([i \in 1..Len(left.rows) |-> Matches(left.rows[i])])]

\* left.merge(right, on=['id']): an inner join that keeps the order of the
\* left rows, and under each the order of the matching right rows; a column
\* name the two sides share, other than the key, gets the suffixes _x and _y
Merge(left, right) ==
  LET li   == ColumnIndex(left.columns, "id")
      ri   == ColumnIndex(right.columns, "id")
      rest == KeepPositions(right.columns, "id", 1)
      Matches(l) ==
        LET F[j \in 0..Len(right.rows)] ==
              IF j = 0 THEN <<>>
              ELSE IF right.rows[j][ri] = l[li]
                   THEN Append(F[j - 1], l \o Project(right.rows[j], rest))
                   ELSE F[j - 1]
        IN  F[Len(right.rows)]
      lcols == [i \in 1..Len(left.columns) |->
                 IF left.columns[i] # "id" /\ HasColumn(right.columns, left.columns[i])
                 THEN left.columns[i] \o "_x" ELSE left.columns[i]]
      rcols == [i \in 1..Len(right.columns) |->
                 IF HasColumn(left.columns, right.columns[i])
                 THEN right.columns[i] \o "_y" ELSE right.columns[i]]
  IN  [columns |-> lcols \o Project(rcols, rest),
       rows    |-> Flatten([i \in 1..Len(left.rows) |-> Matches(left.rows[i])])]

load_data(messages_filepath, categories_filepath) ==
  LET messages_df   == fs[messages_filepath]
      categories_df == fs[categories_filepath]
  IN  IF ~messages_df.exists \/ ~categories_df.exists
      THEN [err |-> "FileNotFoundError", ret |-> NoTable]
      ELSE IF ~HasColumn(messages_df.columns, "id")
                \/ ~HasColumn(categories_df.columns, "id")
      THEN [err |-> "KeyError", ret |-> NoTable]
      ELSE [err |-> "none", ret |-> Merge(messages_df, categories_df)]

-----------------------------------------------------------------------------
(* clean_data *)

\* Series.str.split(';', expand=True): one column per position, a row with
\* fewer pieces than the longest padded with None
StrSplitExpand(strings) ==
  LET lists == [r \in 1..Len(strings) |-> Split(strings[r], ";")]
      width == IF Len(strings) = 0 THEN 0
               ELSE Max({Len(lists[r]) : r \in 1..Len(strings)})
  IN  [r \in 1..Len(strings) |->
        [i \in 1..width |-> IF i <= Len(lists[r]) THEN lists[r][i] ELSE NoneVal]]

\* the name read from the wrong side of the '-'
NamePartValueSide(cell) == Split(cell, "-")[2]

\* lambda column: column.split('-')[0]
NamePart(cell) == Split(cell, "-")[1]

\* lambda row: row.split('-')[1]
ValuePart(cell) == Split(cell, "-")[2]

\* what the lambda of line 37 raises on a cell
MapError(cell) ==
  IF cell = NoneVal THEN "AttributeError"
  ELSE IF Len(Split(cell, "-")) < 2 THEN "IndexError"
  ELSE "none"

\* DataFrame.map visits the cells column by column
CellAt(expanded, k) ==
  LET n == Len(expanded)
  IN  expanded[((k - 1) % n) + 1][((k - 1) \div n) + 1]

\* the number of columns of the expanded table
Width(expanded) == IF Len(expanded) = 0 THEN 0 ELSE Len(expanded[1])

NumCells(expanded) == Len(expanded) * Width(expanded)

\* a first-row read that tolerates a table without rows
FirstRowErrorNoBoundsCheck(expanded) ==
  IF \E i \in 1..Width(expanded) : expanded[1][i] = NoneVal THEN "AttributeError"
  ELSE "none"

\* lines 35-36: iloc[0] of a table without rows is out of bounds, and the
\* lambda of line 36 has no split on a None of the first row
FirstRowError(expanded) ==
  IF Len(expanded) = 0 THEN "IndexError"
  ELSE IF \E i \in 1..Width(expanded) : expanded[1][i] = NoneVal THEN "AttributeError"
  ELSE "none"

FirstMapError(expanded) ==
  LET bad == {k \in 1..NumCells(expanded) : MapError(CellAt(expanded, k)) # "none"}
  IN  IF bad = {} THEN "none"
      ELSE MapError(CellAt(expanded, CHOOSE k \in bad : \A j \in bad : k <= j))

\* DataFrame.duplicated(): the row equals an earlier row on every column
Duplicated(rows, r) == \E q \in 1..(r - 1) : rows[q] = rows[r]

\* drop_duplicates(keep='last')
DropDuplicatesKeepLast(rows) ==
  LET F[r \in 0..Len(rows)] ==
        IF r = 0 THEN <<>>
        ELSE IF \E q \in (r + 1)..Len(rows) : rows[q] = rows[r]
             THEN F[r - 1] ELSE Append(F[r - 1], rows[r])
  IN  F[Len(rows)]

\* DataFrame.drop_duplicates(keep='first')
DropDuplicates(rows) ==
  LET F[r \in 0..Len(rows)] ==
        IF r = 0 THEN <<>>
        ELSE IF Duplicated(rows, r) THEN F[r - 1] ELSE Append(F[r - 1], rows[r])
  IN  F[Len(rows)]

LogLine(msg, val) == [msg |-> msg, val |-> val]

\* The result of a call: the exception raised ("none" when it returns), the
\* table returned, the caller's table object after the call, the lines logged.
clean_data(df) ==
  LET Raise(e, arg) == [err |-> e, ret |-> NoTable, arg |-> arg, log |-> <<>>]
  IN
  IF ~HasColumn(df.columns, "categories")                             \* line 34
  THEN Raise("AttributeError", df)
  ELSE
  LET ci       == ColumnIndex(df.columns, "categories")
      expanded == StrSplitExpand([r \in 1..Len(df.rows) |-> df.rows[r][ci]])
  IN
  IF FirstRowError(expanded) # "none"                             \* lines 35-36
  THEN Raise(FirstRowError(expanded), df)
  ELSE
  LET names == [i \in 1..Width(expanded) |-> Str(NamePart(expanded[1][i]))]
  IN
  IF FirstMapError(expanded) # "none"                                 \* line 37
  THEN Raise(FirstMapError(expanded), df)
  ELSE IF \E k \in 1..NumCells(expanded) :
            ~IntParsable(ValuePart(CellAt(expanded, k)))
  THEN Raise("ValueError", df)
  ELSE
  LET values  == [r \in 1..Len(expanded) |->
                   [i \in 1..Len(expanded[r]) |-> IntOf(ValuePart(expanded[r][i]))]]
      dropped == DropColumn(df, "categories")                         \* line 39
      joined  == [r \in 1..Len(dropped.rows) |-> dropped.rows[r] \o values[r]]
      num_duplicated_messages ==                                      \* line 42
        Cardinality({r \in 1..Len(joined) : Duplicated(joined, r)})
      num_all_messages == Len(joined)                                 \* line 43
      kept    == DropDuplicates(joined)                               \* line 46
  IN
  IF num_all_messages = 0                                             \* line 44
  THEN Raise("ZeroDivisionError", dropped)
  ELSE [err |-> "none",
        ret |-> [columns |-> dropped.columns \o names, rows |-> kept],
        arg |-> dropped,
        log |-> << LogLine("Percentage of duplicates in dataset",
                           <<num_duplicated_messages * 100, num_all_messages>>),
                   LogLine("Removing duplicated messages...", <<>>),
                   LogLine("Number of messages in dataset", <<Len(kept)>>) >>]

-----------------------------------------------------------------------------
(* save_data *)

\* Path.name: the last component of a path
Name(path) == path[Len(path)]

\* create_engine(f'sqlite:///{database_filename.name}'): the file of that
\* name in the working directory
EngineLocation(database_filename) == <<Name(database_filename)>>

\* to_sql with if_exists='replace'
ToSqlReplace(df, location) ==
  [err |-> "none",
   store |-> [store EXCEPT ![location] = File(df.columns, df.rows)]]

\* df.to_sql('messages', engine, index=False), if_exists left at 'fail':
\* the columns and rows of df, no index column
ToSql(df, location) ==
  IF store[location].exists
  THEN [err |-> "ValueError", store |-> store]
  ELSE [err |-> "none",
        store |-> [store EXCEPT ![location] = File(df.columns, df.rows)]]

save_data(df, database_filename) == ToSql(df, EngineLocation(database_filename))

-----------------------------------------------------------------------------
(* The files and paths of the runs *)

HELP == <<"h", "e", "l", "p">>
OK == <<"o", "k">>

A1B0 == <<"a", "-", "1", ";", "b", "-", "0">>          \* "a-1;b-0"
A0B1 == <<"a", "-", "0", ";", "b", "-", "1">>          \* "a-0;b-1"
B1A0 == <<"b", "-", "1", ";", "a", "-", "0">>          \* "b-1;a-0"
A01B0 == <<"a", "-", "0", "1", ";", "b", "-", "0">>    \* "a-01;b-0"
A1 == <<"a", "-", "1">>                                \* "a-1"
A1B == <<"a", "1", ";", "b", "-", "0">>                \* "a1;b-0"
AXB0 == <<"a", "-", "x", ";", "b", "-", "0">>          \* "a-x;b-0"
A1XB0 == <<"a", "-", "1", "-", "x", ";", "b", "-", "0">>  \* "a-1-x;b-0"
A1A0 == <<"a", "-", "1", ";", "a", "-", "0">>          \* "a-1;a-0"

Ids == {1, 2}

MessageColumns == <<"id", "message">>
CategoryColumns == <<"id", "categories">>

\* the working directory of the runs of main
FileSystem ==
  [p \in {"messages.csv", "categories.csv", "updated.csv", "malformed.csv",
          "other.csv", "missing.csv"} |->
    CASE p = "messages.csv" ->
           File(MessageColumns, << <<1, HELP>>, <<2, OK>>, <<2, OK>> >>)
      [] p = "categories.csv" ->
           File(CategoryColumns, << <<1, A1B0>>, <<2, A1B0>> >>)
      [] p = "updated.csv" ->
           File(CategoryColumns, << <<1, A0B1>>, <<2, A1B0>> >>)
      [] p = "malformed.csv" ->
           File(CategoryColumns, << <<1, A1B0>>, <<2, AXB0>> >>)
      [] p = "other.csv" ->
           File(CategoryColumns, << <<3, A0B1>> >>)
      [] OTHER -> NoFile]

DatabasePaths ==
  { <<"a.db">>, <<"out", "a.db">>, <<"tmp", "a.db">>, <<"out", "b.db">> }

StoreLocations == DatabasePaths \cup {EngineLocation(p) : p \in DatabasePaths}

EmptyStore == [l \in StoreLocations |-> NoFile]

NoArgs == [messages |-> "", categories |-> "", database |-> <<>>]

-----------------------------------------------------------------------------
(* main *)

Fail(e) ==
  /\ pc' = "failed"
  /\ err' = e

\* lines 58-68: a run of the script parses its arguments and logs them
MainStart ==
  /\ pc \in {"start", "done", "failed"}
  /\ runs < MaxRuns
  /\ \E m \in DOMAIN fs, c \in DOMAIN fs, d \in DatabasePaths :
       args' = [messages |-> m, categories |-> c, database |-> d]
  /\ runs' = runs + 1
  /\ pc' = "load"
  /\ err' = "none"
  /\ data_df' = NoTable
  /\ cleaned_data_df' = NoTable
  /\ log' = <<LogLine("Loading data...", <<>>)>>
  /\ UNCHANGED <<fs, store>>

\* line 69
MainLoad ==
  /\ pc = "load"
  /\ LET r == load_data(args.messages, args.categories)
     IN  IF r.err = "none"
         THEN /\ data_df' = r.ret
              /\ pc' = "clean"
              /\ err' = err
         ELSE /\ Fail(r.err)
              /\ data_df' = data_df
  /\ UNCHANGED <<fs, store, args, cleaned_data_df, log, runs>>

\* a clean step that swallows the exception and goes on to save
MainCleanSwallow ==
  /\ pc = "clean"
  /\ LET r == clean_data(data_df)
     IN  /\ data_df' = r.arg
         /\ log' = Append(log, LogLine("Cleaning data...", <<>>)) \o r.log
         /\ cleaned_data_df' = r.ret
         /\ pc' = "save"
         /\ err' = r.err
  /\ UNCHANGED <<fs, store, args, runs>>

\* lines 71-72
MainClean ==
  /\ pc = "clean"
  /\ LET r == clean_data(data_df)
     IN  /\ data_df' = r.arg
         /\ log' = Append(log, LogLine("Cleaning data...", <<>>)) \o r.log
         /\ IF r.err = "none"
            THEN /\ cleaned_data_df' = r.ret
                 /\ pc' = "save"
                 /\ err' = err
            ELSE /\ Fail(r.err)
                 /\ cleaned_data_df' = cleaned_data_df
  /\ UNCHANGED <<fs, store, args, runs>>

\* lines 74-75
MainSave ==
  /\ pc = "save"
  /\ LET r == save_data(cleaned_data_df, args.database)
     IN  /\ store' = r.store
         /\ IF r.err = "none"
            THEN /\ pc' = "saved"
                 /\ err' = err
            ELSE Fail(r.err)
  /\ log' = Append(log, LogLine("Saving data...", <<>>))
  /\ UNCHANGED <<fs, args, data_df, cleaned_data_df, runs>>

\* line 77
MainFinish ==
  /\ pc = "saved"
  /\ log' = Append(log, LogLine("Cleaned data saved to database!", <<>>))
  /\ pc' = "done"
  /\ UNCHANGED <<fs, store, args, data_df, cleaned_data_df, err, runs>>

Init ==
  /\ fs = FileSystem
  /\ store = EmptyStore
  /\ args = NoArgs
  /\ pc = "start"
  /\ data_df = NoTable
  /\ cleaned_data_df = NoTable
  /\ err = "none"
  /\ log = <<>>
  /\ runs = 0

Next == MainStart \/ MainLoad \/ MainClean \/ MainSave \/ MainFinish

Spec == Init /\ [][Next]_vars

-----------------------------------------------------------------------------
(* load_data on its own: the two files are drawn from bounded sets *)

MessageRows == {<<i, t>> : i \in Ids, t \in {HELP, OK}}

CategoryRows == {<<i, c>> : i \in Ids, c \in {A1B0, A0B1, A1}}

MessagesFiles ==
  {File(MessageColumns, r) : r \in SeqsUpTo(MessageRows, MaxFileRows)}
    \cup {NoFile, File(<<"key", "message">>, <<>>)}

CategoriesFiles ==
  {File(CategoryColumns, r) : r \in SeqsUpTo(CategoryRows, MaxFileRows)}
    \cup {NoFile, File(<<"key", "categories">>, <<>>)}

LoadArgs ==
  [messages |-> "messages.csv", categories |-> "categories.csv", database |-> <<"a.db">>]

InitLoad ==
  /\ \E m \in MessagesFiles, c \in CategoriesFiles :
       fs = [p \in {"messages.csv", "categories.csv"} |->
              IF p = "messages.csv" THEN m ELSE c]
  /\ store = EmptyStore
  /\ args = LoadArgs
  /\ pc = "load"
  /\ data_df = NoTable
  /\ cleaned_data_df = NoTable
  /\ err = "none"
  /\ log = <<LogLine("Loading data...", <<>>)>>
  /\ runs = 1

NextLoad == MainLoad

SpecLoad == InitLoad /\ [][NextLoad]_vars

-----------------------------------------------------------------------------
(* clean_data on its own: the table is drawn from a bounded set *)

CategoryStrings == {A1B0, A0B1, B1A0, A01B0, A1, A1B, AXB0, A1XB0, A1A0}

CleanRows == {<<i, HELP, c>> : i \in Ids, c \in CategoryStrings}

CleanInputs ==
  {[columns |-> <<"id", "message", "categories">>, rows |-> r] :
     r \in SeqsUpTo(CleanRows, MaxTableRows)}
    \cup {[columns |-> <<"id", "message", "genre">>, rows |-> r] :
            r \in SeqsUpTo(CleanRows, 1)}

InitClean ==
  /\ fs = FileSystem
  /\ store = EmptyStore
  /\ args = LoadArgs
  /\ pc = "clean"
  /\ data_df \in CleanInputs
  /\ cleaned_data_df = NoTable
  /\ err = "none"
  /\ log = <<LogLine("Loading data...", <<>>)>>
  /\ runs = 1

NextClean == MainClean

SpecClean == InitClean /\ [][NextClean]_vars

-----------------------------------------------------------------------------
(* Properties of load_data (SpecLoad) *)

messages_in == fs["messages.csv"]
categories_in == fs["categories.csv"]

\* the ids of a table, and how often one occurs
IdsOf(t) == {t.rows[r][ColumnIndex(t.columns, "id")] : r \in 1..Len(t.rows)}

Occurrences(t, id) ==
  Cardinality({r \in 1..Len(t.rows) : t.rows[r][ColumnIndex(t.columns, "id")] = id})

UniqueIds(t) == \A id \in IdsOf(t) : Occurrences(t, id) = 1

Min(a, b) == IF a <= b THEN a ELSE b

\* load_data returned: main is past line 69
Loaded == pc = "clean"

\* C1, as stated: the joined table has at most min(rows of messages, rows of
\* categories) rows, and exactly that many iff the two id sets are identical
\* (read on the inputs most favourable to it: both tables have rows and no
\* id is repeated in either).
C1_Original ==
  (/\ Loaded
   /\ Len(messages_in.rows) > 0 /\ Len(categories_in.rows) > 0
   /\ UniqueIds(messages_in) /\ UniqueIds(categories_in)) =>
    LET n == Len(data_df.rows)
        m == Min(Len(messages_in.rows), Len(categories_in.rows))
    IN  /\ n <= m
        /\ (n = m) <=> (IdsOf(messages_in) = IdsOf(categories_in))

\* C1, amended: when no id is repeated within either table, the joined table
\* has at most min(rows of messages, rows of categories) rows, and exactly
\* that many iff the id set of one table is contained in that of the other
\* (so in particular when the two are identical); with repeated ids the
\* count is only bounded by the product of the two row counts.
C1_JoinedRowCount ==
  Loaded =>
    LET n == Len(data_df.rows)
        m == Min(Len(messages_in.rows), Len(categories_in.rows))
    IN  /\ n <= Len(messages_in.rows) * Len(categories_in.rows)
        /\ (UniqueIds(messages_in) /\ UniqueIds(categories_in)) =>
             /\ n <= m
             /\ (n = m) <=> \/ IdsOf(messages_in) \subseteq IdsOf(categories_in)
                            \/ IdsOf(categories_in) \subseteq IdsOf(messages_in)
             /\ (IdsOf(messages_in) = IdsOf(categories_in)) => n = m

\* C1's case: unique ids, the ids of categories strictly inside those of
\* messages, and the join as long as the shorter table
C1_Witness ==
  /\ Loaded
  /\ UniqueIds(messages_in) /\ UniqueIds(categories_in)
  /\ IdsOf(categories_in) \subseteq IdsOf(messages_in)
  /\ IdsOf(categories_in) # IdsOf(messages_in)
  /\ Len(data_df.rows) = 1
  /\ Len(messages_in.rows) = 2

\* C2, as stated: the joined table has exactly one row for every id present
\* in both sources and none for an id present in only one.
C2_Original ==
  Loaded =>
    \A id \in IdsOf(messages_in) \cup IdsOf(categories_in) :
      Occurrences(data_df, id) =
        IF id \in IdsOf(messages_in) \cap IdsOf(categories_in) THEN 1 ELSE 0

\* C2, amended: for every id the joined table has (occurrences in messages)
\* x (occurrences in categories) rows: none for an id present in only one
\* source, at least one for an id present in both, and exactly one when the
\* id occurs once in each source.
C2_RowsPerId ==
  Loaded =>
    \A id \in IdsOf(messages_in) \cup IdsOf(categories_in) :
      /\ Occurrences(data_df, id) =
           Occurrences(messages_in, id) * Occurrences(categories_in, id)
      /\ id \notin IdsOf(messages_in) \cap IdsOf(categories_in) =>
           Occurrences(data_df, id) = 0
      /\ (Occurrences(messages_in, id) = 1 /\ Occurrences(categories_in, id) = 1) =>
           Occurrences(data_df, id) = 1

\* C2's case: one id in both sources, once each, and one id in messages only
C2_Witness ==
  /\ Loaded
  /\ IdsOf(messages_in) = {1, 2}
  /\ IdsOf(categories_in) = {1}
  /\ UniqueIds(messages_in) /\ UniqueIds(categories_in)
  /\ Occurrences(data_df, 1) = 1
  /\ Occurrences(data_df, 2) = 0

-----------------------------------------------------------------------------
(* Properties of clean_data (SpecClean) *)

\* the tokens of a packed string, and the two sides of a token's first '-'
Tokens(s) == Split(s, ";")

DashCount(token) == Cardinality({i \in 1..Len(token) : token[i] = "-"})

FirstDash(token) ==
  CHOOSE i \in 1..Len(token) : token[i] = "-" /\ \A j \in 1..(i - 1) : token[j] # "-"

Prefix(token) == SubSeq(token, 1, FirstDash(token) - 1)

Suffix(token) == SubSeq(token, FirstDash(token) + 1, Len(token))

\* the number a run of digits writes
DecimalValue(ds) ==
  LET P[i \in 0..Len(ds)] == IF i = 0 THEN 1 ELSE 10 * P[i - 1]
      S[i \in 0..Len(ds)] ==
        IF i = 0 THEN 0 ELSE S[i - 1] + DigitVal(ds[i]) * P[Len(ds) - i]
  IN  S[Len(ds)]

\* name-value: one '-', and digits after it
WellFormedToken(token) ==
  /\ DashCount(token) = 1
  /\ Len(Suffix(token)) > 0
  /\ \A i \in 1..Len(Suffix(token)) : Suffix(token)[i] \in Digits

PackedOf(t, r) == t.rows[r][ColumnIndex(t.columns, "categories")]

\* every `categories` string of t has the same number of well-formed tokens
AllWellFormed(t) ==
  /\ HasColumn(t.columns, "categories")
  /\ Len(t.rows) >= 1
  /\ \A r \in 1..Len(t.rows) :
       /\ Len(Tokens(PackedOf(t, r))) = Len(Tokens(PackedOf(t, 1)))
       /\ \A i \in 1..Len(Tokens(PackedOf(t, r))) :
            WellFormedToken(Tokens(PackedOf(t, r))[i])

\* row r of t without its `categories` cell, followed by the integer
\* suffixes of its own tokens
ExpandedRow(t, r) ==
  DropColumn(t, "categories").rows[r]
    \o [i \in 1..Len(Tokens(PackedOf(t, r))) |->
          DecimalValue(Suffix(Tokens(PackedOf(t, r))[i]))]

\* the step in which clean_data is called, and how it ended
CleanCalled == pc = "clean"
CleanReturned == pc = "clean" /\ pc' = "save"
CleanFailed == pc = "clean" /\ pc' = "failed"

\* C3: on a table whose `categories` strings all have N well-formed tokens,
\* clean_data returns a table without `categories` and with N more columns;
\* the i-th of them is named by the prefix of the first row's i-th token and
\* holds, in the row kept for input row r, the integer suffix of row r's own
\* i-th token.
C3_CategoryExpansion ==
  [][ (CleanCalled /\ AllWellFormed(data_df)) =>
        LET N    == Len(Tokens(PackedOf(data_df, 1)))
            base == Len(data_df.columns) - 1
            out  == cleaned_data_df'
        IN  /\ CleanReturned /\ err' = "none"
            /\ ~HasColumn(out.columns, "categories")
            /\ Len(out.columns) = base + N
            /\ \A i \in 1..base :
                 out.columns[i] = DropColumn(data_df, "categories").columns[i]
            /\ \A i \in 1..N :
                 out.columns[base + i] = Str(Prefix(Tokens(PackedOf(data_df, 1))[i]))
            /\ \A k \in 1..Len(out.rows) :
                 \E r \in 1..Len(data_df.rows) : out.rows[k] = ExpandedRow(data_df, r)
            /\ \A r \in 1..Len(data_df.rows) :
                 \E k \in 1..Len(out.rows) : out.rows[k] = ExpandedRow(data_df, r)
    ]_vars

\* C3's case: two category columns named a and b from the first row, and
\* rows that carry different values in them
C3_Witness ==
  /\ pc = "save"
  /\ cleaned_data_df.columns = <<"id", "message", "a", "b">>
  /\ cleaned_data_df.rows = << <<1, HELP, 1, 0>>, <<2, HELP, 0, 1>>, <<2, HELP, 1, 0>> >>
  /\ data_df.columns = <<"id", "message">>

\* the input rows that equal no earlier row, once expanded
FirstOccurrences(t) ==
  {r \in 1..Len(t.rows) :
     \A q \in 1..(r - 1) : ExpandedRow(t, q) # ExpandedRow(t, r)}

\* the k-th smallest member of a set of numbers
Kth(S, k) == CHOOSE r \in S : Cardinality({q \in S : q < r}) = k - 1

\* C4: the table clean_data returns has no two equal rows; it is the
\* sequence of expanded input rows without the rows that equal an earlier
\* one, first occurrences kept in their order, so that exactly one duplicate
\* row in the input gives one row less.
C4_Deduplication ==
  [][ CleanReturned =>
        LET out == cleaned_data_df'.rows
            n   == Len(data_df.rows)
        IN  /\ \A i, j \in 1..Len(out) : i # j => out[i] # out[j]
            /\ Len(out) <= n
            /\ AllWellFormed(data_df) =>
                 /\ Len(out) = Cardinality(FirstOccurrences(data_df))
                 /\ \A k \in 1..Len(out) :
                      out[k] = ExpandedRow(data_df, Kth(FirstOccurrences(data_df), k))
                 /\ (n - Cardinality(FirstOccurrences(data_df)) = 1) => Len(out) = n - 1
    ]_vars

\* C4's case: three rows of which one repeated an earlier one (the logged
\* percentage is 100/3), two rows kept
C4_Witness ==
  /\ pc = "save"
  /\ \E i \in 1..Len(log) :
       log[i] = LogLine("Percentage of duplicates in dataset", <<100, 3>>)
  /\ cleaned_data_df.rows = << <<1, HELP, 1, 0>>, <<2, HELP, 1, 0>> >>

ZeroRows(t) == HasColumn(t.columns, "categories") /\ Len(t.rows) = 0

\* C8, as stated: on a table with zero rows clean_data fails with the
\* division by zero of the duplicate percentage.
C8_Original ==
  [][ (CleanCalled /\ ZeroRows(data_df)) =>
        (CleanFailed /\ err' = "ZeroDivisionError") ]_vars

\* C8, amended: on a table with zero rows clean_data fails rather than
\* returning an empty table, and the failure is the out-of-bounds IndexError
\* of reading the first row of the expanded categories (line 35); the
\* division of the duplicate percentage is never reached, so no call ends in
\* a division by zero.
C8_EmptyTableFails ==
  [][ /\ (CleanCalled /\ ZeroRows(data_df)) =>
           /\ CleanFailed
           /\ err' = "IndexError"
           /\ cleaned_data_df' = NoTable
           /\ \A i \in 1..Len(log') :
                log'[i].msg # "Percentage of duplicates in dataset"
      /\ CleanCalled => err' # "ZeroDivisionError"
    ]_vars

\* C8's case: the call on a table with a `categories` column and no rows
\* has failed with IndexError
C8_Witness ==
  /\ pc = "failed"
  /\ err = "IndexError"
  /\ data_df = [columns |-> <<"id", "message", "categories">>, rows |-> <<>>]

\* C9, as stated: after any call of clean_data the caller's table has the
\* columns and the rows it had before.
C9_Original ==
  [][ CleanCalled =>
        /\ data_df'.columns = data_df.columns
        /\ data_df'.rows = data_df.rows ]_vars

\* a token without '-', or with a non-integer part after its '-'
MalformedToken(token) ==
  \/ DashCount(token) = 0
  \/ ~IntParsable(Suffix(token))

Malformed(t) ==
  \/ ~HasColumn(t.columns, "categories")
  \/ \E r \in 1..Len(t.rows) :
       \E i \in 1..Len(Tokens(PackedOf(t, r))) :
         MalformedToken(Tokens(PackedOf(t, r))[i])

\* C10, as stated: clean_data fails and returns no table whenever
\* `categories` is absent or some token of some row lacks a '-' or has a
\* non-integer part after it.
C10_Original ==
  [][ (CleanCalled /\ Malformed(data_df)) =>
        (CleanFailed /\ cleaned_data_df' = NoTable) ]_vars

-----------------------------------------------------------------------------
(* Properties of save_data and main (Spec) *)

SaveCalled == pc = "save"
SaveReturned == pc = "save" /\ pc' = "saved"
SaveFailed == pc = "save" /\ pc' = "failed"

Written(df) == File(df.columns, df.rows)

\* C5: when the store save_data opens already holds a table `messages`, the
\* call fails and the store is left as it was; a table once written is never
\* overwritten or appended to; and after a successful save to a path, a save
\* to the same path is bound to fail.
C5_FailIfExists ==
  [][ /\ (SaveCalled /\ store[EngineLocation(args.database)].exists) =>
           (SaveFailed /\ err' = "ValueError" /\ store' = store)
      /\ \A l \in StoreLocations : store[l].exists => store'[l] = store[l]
      /\ SaveReturned =>
           (save_data(cleaned_data_df, args.database).err = "ValueError")'
      /\ \A d \in DatabasePaths :
           save_data(cleaned_data_df, d).err = "ValueError" =>
             (save_data(cleaned_data_df, d).err = "ValueError")'
    ]_vars

\* C5's case: the second run saved to the path of the first, failed on the
\* existing table, and the rows of the first run are still there
C5_Witness ==
  /\ pc = "failed"
  /\ err = "ValueError"
  /\ runs = 2
  /\ log[Len(log)] = LogLine("Saving data...", <<>>)
  /\ args.database = <<"a.db">>
  /\ store[<<"a.db">>].rows = << <<1, HELP, 1, 0>>, <<2, OK, 1, 0>> >>
  /\ cleaned_data_df.rows = << <<1, HELP, 0, 1>>, <<2, OK, 1, 0>> >>

\* C6, as stated: a successful save_data(table, destination_path) writes the
\* table's columns and rows, without an index column, into the store at
\* destination_path itself and nowhere else, and a save to a path whose own
\* store holds no table does not conflict with saves to other paths.
C6_Original ==
  [][ SaveCalled =>
        /\ SaveReturned =>
             /\ store'[args.database] = Written(cleaned_data_df)
             /\ \A l \in StoreLocations \ {args.database} : store'[l] = store[l]
        /\ ~store[args.database].exists => SaveReturned
    ]_vars

IsStageLine(line) ==
  line.msg \in {"Loading data...", "Cleaning data...", "Saving data...",
                "Cleaned data saved to database!"}

StageLines ==
  << LogLine("Loading data...", <<>>), LogLine("Cleaning data...", <<>>),
     LogLine("Saving data...", <<>>), LogLine("Cleaned data saved to database!", <<>>) >>

\* the stage main has reached, by the lines it logged
Stage(l) == Len(SelectSeq(l, IsStageLine))

InOrder(l) == SelectSeq(l, IsStageLine) = SubSeq(StageLines, 1, Stage(l))

PcSteps ==
  { <<"start", "load">>, <<"done", "load">>, <<"failed", "load">>,
    <<"load", "clean">>, <<"load", "failed">>,
    <<"clean", "save">>, <<"clean", "failed">>,
    <<"save", "saved">>, <<"save", "failed">>,
    <<"saved", "done">> }

\* C7: a run goes Loader, Cleaner, Persister, each on the output of the one
\* before; the store changes in one step only, the successful save of the
\* table the Cleaner returned for the Loader's table, which adds one whole
\* table where there was none; a failing stage ends the run with the store
\* untouched, no later stage run and no success message.
C7_StageOrder ==
  [][ /\ <<pc, pc'>> \in PcSteps
      /\ pc' # "load" => runs' = runs
      /\ InOrder(log')
      /\ pc' = "clean" =>
           /\ load_data(args'.messages, args'.categories).err = "none"
           /\ data_df' = load_data(args'.messages, args'.categories).ret
      /\ pc' = "save" =>
           /\ clean_data(load_data(args.messages, args.categories).ret).err = "none"
           /\ cleaned_data_df' =
                clean_data(load_data(args.messages, args.categories).ret).ret
      /\ store' # store =>
           /\ SaveReturned
           /\ err = "none" /\ err' = "none"
           /\ Stage(log) = 2 /\ Stage(log') = 3
           /\ \E l \in StoreLocations :
                /\ ~store[l].exists
                /\ store' = [store EXCEPT ![l] = Written(cleaned_data_df)]
      /\ pc' = "failed" =>
           /\ store' = store
           /\ err' # "none"
           /\ Stage(log') < 4
      /\ Stage(log') = 4 <=> pc' = "done"
    ]_vars

\* C7's case: a run went through the three stages, wrote the cleaned table
\* and logged the success message
C7_Witness ==
  /\ pc = "done"
  /\ runs = 1
  /\ Stage(log) = 4
  /\ \E l \in StoreLocations : store[l] = Written(cleaned_data_df)
  /\ Len(cleaned_data_df.rows) = 2

====
